---- MODULE Spec2Model ----
(***************************************************************************)
(* MovieDatabaseUtility (src/database_utility.py): two text sources of     *)
(* INSERT statements are parsed with regular expressions and loaded into   *)
(* two SQLite tables; a handful of read-only queries report on them.       *)
(*                                                                         *)
(* A source is a sequence of statements.  A statement is the record of its *)
(* literal fields: a \d+ or [0-9.]+ field is the sequence of its           *)
(* characters, each a one-character string; director is the sequence of    *)
(* its characters as well (LIKE looks inside it); the                      *)
(* other quoted fields are strings.  The columns genres, country,          *)
(* language, imdb_votes and metacritic_score are carried like title and    *)
(* read by no query result modelled here; they are left out.               *)
(***************************************************************************)
EXTENDS Integers, Sequences, FiniteSets, TLC

MaxMovieStmts == 3
MaxActorStmts == 2
DefaultTopN == 10

Absent == [exists |-> FALSE, content |-> <<>>]

File(content) == [exists |-> TRUE, content |-> content]

(***************************************************************************)
(* Parser: the regular expressions and the int()/float() conversions.      *)
(***************************************************************************)
Digits == {"0", "1", "2", "3", "4", "5", "6", "7", "8", "9"}

DigitVal ==
    "0" :> 0 @@ "1" :> 1 @@ "2" :> 2 @@ "3" :> 3 @@ "4" :> 4 @@
    "5" :> 5 @@ "6" :> 6 @@ "7" :> 7 @@ "8" :> 8 @@ "9" :> 9

IsDigits(cs) == Len(cs) >= 1 /\ \A i \in 1..Len(cs) : cs[i] \in Digits

IsNumberChars(cs) == Len(cs) >= 1 /\ \A i \in 1..Len(cs) : cs[i] \in Digits \/ cs[i] = "."

RECURSIVE ParseInt(_)
ParseInt(cs) ==
    IF cs = <<>> THEN 0
    ELSE 10 * ParseInt(SubSeq(cs, 1, Len(cs) - 1)) + DigitVal[cs[Len(cs)]]

DotPositions(cs) == {i \in 1..Len(cs) : cs[i] = "."}

FloatOk(cs) ==
    /\ Cardinality(DotPositions(cs)) <= 1
    /\ \E i \in 1..Len(cs) : cs[i] \in Digits

\* float() of a text with at most two fractional digits, in hundredths.
ParseFloat(cs) ==
    IF DotPositions(cs) = {} THEN 100 * ParseInt(cs)
    ELSE LET d == CHOOSE i \in DotPositions(cs) : TRUE
             frac == SubSeq(cs, d + 1, Len(cs))
         IN  100 * ParseInt(SubSeq(cs, 1, d - 1))
               + (IF Len(frac) = 0 THEN 0
                  ELSE IF Len(frac) = 1 THEN 10 * DigitVal[frac[1]]
                  ELSE 10 * DigitVal[frac[1]] + DigitVal[frac[2]])

MoviePattern(s) ==
    /\ IsDigits(s.id)
    /\ s.imdb_id # ""
    /\ IsDigits(s.year)
    /\ IsDigits(s.runtime)
    /\ IsNumberChars(s.imdb_score)

ActorPattern(s) ==
    /\ IsDigits(s.id)
    /\ IsDigits(s.movie_id)
    /\ s.imdb_id # ""
    /\ s.name # ""

MovieMatches(content) == SelectSeq(content, MoviePattern)

ActorMatches(content) == SelectSeq(content, ActorPattern)

MovieArgsOk(g) == FloatOk(g.imdb_score)

MovieRow(g) ==
    [id |-> ParseInt(g.id), imdb_id |-> g.imdb_id, title |-> g.title,
     director |-> g.director, year |-> ParseInt(g.year), rating |-> g.rating,
     runtime |-> ParseInt(g.runtime), imdb_score |-> ParseFloat(g.imdb_score)]

ActorRow(g) ==
    [id |-> ParseInt(g.id), movie_id |-> ParseInt(g.movie_id),
     imdb_id |-> g.imdb_id, name |-> g.name]

(***************************************************************************)
(* The statements the sources are drawn from.                              *)
(***************************************************************************)
MovieStmt(id, imdb, title, runtime, rating, score) ==
    [id |-> id, imdb_id |-> imdb, title |-> title, director |-> <<"N", "o">>,
     year |-> <<"2", "0">>, rating |-> rating, runtime |-> runtime, imdb_score |-> score]

ActorStmt(id, movie, imdb, name) ==
    [id |-> id, movie_id |-> movie, imdb_id |-> imdb, name |-> name]

\* Movie ids 1, 01 (the same key as 1) and 2; a score float() rejects.
MovieStmts ==
    { MovieStmt(<<"1">>, "tt1", "A", <<"9", "0">>, "PG", <<"9", ".", "0">>),
      MovieStmt(<<"0", "1">>, "tt9", "Z", <<"2", "0", "0">>, "R", <<"8", ".", "5">>),
      MovieStmt(<<"2">>, "tt2", "B", <<"4", "5">>, "PG", <<"8", ".", "5">>),
      MovieStmt(<<"4">>, "tt4", "D", <<"9", "0">>, "R", <<"1", ".", "2", ".", "3">>) }

\* Actor ids 1, 2 and 01 (the same key as 1), of movies 1 and 2; a statement
\* the pattern does not match (empty name).
ActorStmts ==
    { ActorStmt(<<"1">>, <<"1">>, "nm1", "a"),
      ActorStmt(<<"2">>, <<"1">>, "nm2", "B"),
      ActorStmt(<<"0", "1">>, <<"2">>, "nm9", "C"),
      ActorStmt(<<"5">>, <<"1">>, "nm5", "") }

SeqsUpTo(S, n) == UNION {[1..k -> S] : k \in 0..n}

MovieSources == SeqsUpTo(MovieStmts, MaxMovieStmts)

ActorSources == SeqsUpTo(ActorStmts, MaxActorStmts)

\* What the storage file holds before the first construction: nothing, or
\* the tables an earlier construction left.
PriorStores ==
    { [exist |-> FALSE, movies |-> {}, actors |-> {}],
      [exist |-> TRUE,
       movies |-> { MovieRow(MovieStmt(<<"1">>, "tt7", "Old", <<"3", "0", "0">>, "G", <<"9", ".", "9">>)),
                    MovieRow(MovieStmt(<<"7">>, "tt8", "Older", <<"3", "0", "0">>, "G", <<"9", ".", "9">>)) },
       actors |-> { ActorRow(ActorStmt(<<"1">>, <<"7">>, "nm7", "Old")),
                    ActorRow(ActorStmt(<<"7">>, <<"7">>, "nm8", "Older")) }] }

(***************************************************************************)
(* State.                                                                  *)
(***************************************************************************)
VARIABLES
    movies_file,   \* content of movies.sql, or Absent
    actors_file,   \* content of actors.sql, or Absent
    tables_exist,  \* the storage file holds the two tables
    movies,        \* rows of table movies as the open connection sees them
    actors,        \* rows of table actors as the open connection sees them
    committed,     \* [movies, actors]: the rows as of the last commit
    pc,            \* position of the constructor, "ready" once it returned
    matches,       \* the matches the running insert loop iterates over
    pos,           \* index of the next match of the running insert loop
    warnings,      \* the warnings printed by the current construction
    error,         \* the exception that aborted the construction, or "none"
    result,        \* what the last query returned
    first_load     \* the tables an earlier construction over these sources left

vars == <<movies_file, actors_file, tables_exist, movies, actors, committed, pc,
          matches, pos, warnings, error, result, first_load>>

files == <<movies_file, actors_file>>

NoResult == [op |-> "none"]

NoLoad == [known |-> FALSE, movies |-> {}, actors |-> {}]

\* sqlite3.connect() never issues PRAGMA foreign_keys = ON, and SQLite's
\* default leaves foreign-key enforcement off.
foreign_keys == FALSE

Init ==
    /\ movies_file \in {File(c) : c \in MovieSources} \cup {Absent}
    /\ actors_file \in {File(c) : c \in ActorSources} \cup {Absent}
    /\ \E p \in PriorStores :
          /\ tables_exist = p.exist
          /\ movies = p.movies
          /\ actors = p.actors
          /\ committed = [movies |-> p.movies, actors |-> p.actors]
    /\ pc = "initialize_database"
    /\ matches = <<>>
    /\ pos = 1
    /\ warnings = <<>>
    /\ error = "none"
    /\ result = NoResult
    /\ first_load = NoLoad

(***************************************************************************)
(* Construction: __init__ and the methods it calls.                        *)
(***************************************************************************)
\* Mutant: CREATE TABLE IF NOT EXISTS without the DROP TABLE statements.
initialize_database_keep ==
    /\ pc = "initialize_database"
    /\ tables_exist' = TRUE
    /\ pc' = "parse_and_insert_sql_files"
    /\ UNCHANGED <<files, movies, actors, committed, matches, pos, warnings, error,
                   result, first_load>>

\* DROP TABLE IF EXISTS actors, movies; CREATE TABLE movies, actors.
initialize_database ==
    /\ pc = "initialize_database"
    /\ tables_exist' = TRUE
    /\ movies' = {}
    /\ actors' = {}
    /\ committed' = [movies |-> {}, actors |-> {}]
    /\ pc' = "parse_and_insert_sql_files"
    /\ UNCHANGED <<files, matches, pos, warnings, error, result, first_load>>

\* raise FileNotFoundError: actors.sql is looked for first.
parse_and_insert_FileNotFoundError ==
    /\ pc = "parse_and_insert_sql_files"
    /\ ~actors_file.exists \/ ~movies_file.exists
    /\ error' = IF ~actors_file.exists THEN "FileNotFoundError: actors.sql"
                ELSE "FileNotFoundError: movies.sql"
    /\ pc' = "failed"
    /\ UNCHANGED <<files, tables_exist, movies, actors, committed, matches, pos,
                   warnings, result, first_load>>

\* Mutant: actors.sql is looked for only when _insert_actors opens it.
insert_movies_open_unchecked ==
    /\ pc = "parse_and_insert_sql_files"
    /\ movies_file.exists
    /\ matches' = MovieMatches(movies_file.content)
    /\ pos' = 1
    /\ pc' = "insert_movies"
    /\ UNCHANGED <<files, tables_exist, movies, actors, committed, warnings, error,
                   result, first_load>>

\* Mutant: _insert_actors is called before _insert_movies.
insert_actors_first ==
    /\ pc = "parse_and_insert_sql_files"
    /\ actors_file.exists /\ movies_file.exists
    /\ matches' = ActorMatches(actors_file.content)
    /\ pos' = 1
    /\ pc' = "insert_actors"
    /\ UNCHANGED <<files, tables_exist, movies, actors, committed, warnings, error,
                   result, first_load>>

\* _insert_movies: read the file, re.finditer, open the connection.
insert_movies_open ==
    /\ pc = "parse_and_insert_sql_files"
    /\ actors_file.exists /\ movies_file.exists
    /\ matches' = MovieMatches(movies_file.content)
    /\ pos' = 1
    /\ pc' = "insert_movies"
    /\ UNCHANGED <<files, tables_exist, movies, actors, committed, warnings, error,
                   result, first_load>>

\* One iteration of the loop whose INSERT succeeds.
insert_movies_row ==
    /\ pc = "insert_movies"
    /\ pos <= Len(matches)
    /\ MovieArgsOk(matches[pos])
    /\ \A r \in movies : r.id # ParseInt(matches[pos].id)
    /\ movies' = movies \cup {MovieRow(matches[pos])}
    /\ pos' = pos + 1
    /\ UNCHANGED <<files, tables_exist, actors, committed, pc, matches, warnings,
                   error, result, first_load>>

\* Mutant: INSERT OR REPLACE, the later row takes the place of the earlier.
insert_movies_replace ==
    /\ pc = "insert_movies"
    /\ pos <= Len(matches)
    /\ MovieArgsOk(matches[pos])
    /\ \E r \in movies : r.id = ParseInt(matches[pos].id)
    /\ movies' = {r \in movies : r.id # ParseInt(matches[pos].id)}
                    \cup {MovieRow(matches[pos])}
    /\ pos' = pos + 1
    /\ UNCHANGED <<files, tables_exist, actors, committed, pc, matches, warnings,
                   error, result, first_load>>

\* One iteration whose INSERT raises sqlite3.IntegrityError (primary key).
insert_movies_IntegrityError ==
    /\ pc = "insert_movies"
    /\ pos <= Len(matches)
    /\ MovieArgsOk(matches[pos])
    /\ \E r \in movies : r.id = ParseInt(matches[pos].id)
    /\ warnings' = Append(warnings, [table |-> "movies", id |-> ParseInt(matches[pos].id)])
    /\ pos' = pos + 1
    /\ UNCHANGED <<files, tables_exist, movies, actors, committed, pc, matches,
                   error, result, first_load>>

\* float() raises ValueError while the arguments are built: the exception
\* leaves the with block, which rolls the connection back.
insert_movies_ValueError ==
    /\ pc = "insert_movies"
    /\ pos <= Len(matches)
    /\ ~MovieArgsOk(matches[pos])
    /\ movies' = committed.movies
    /\ actors' = committed.actors
    /\ error' = "ValueError"
    /\ pc' = "failed"
    /\ UNCHANGED <<files, tables_exist, committed, matches, pos, warnings, result,
                   first_load>>

\* The loop is exhausted: the with block commits; _insert_actors reads its
\* file, runs re.finditer and opens its connection.
insert_movies_commit ==
    /\ pc = "insert_movies"
    /\ pos > Len(matches)
    /\ committed' = [movies |-> movies, actors |-> actors]
    /\ matches' = ActorMatches(actors_file.content)
    /\ pos' = 1
    /\ pc' = "insert_actors"
    /\ UNCHANGED <<files, tables_exist, movies, actors, warnings, error, result,
                   first_load>>

ActorConstraintFails(row) ==
    \/ \E r \in actors : r.id = row.id
    \/ foreign_keys /\ \A m \in movies : m.id # row.movie_id

insert_actors_row ==
    /\ pc = "insert_actors"
    /\ pos <= Len(matches)
    /\ ~ActorConstraintFails(ActorRow(matches[pos]))
    /\ actors' = actors \cup {ActorRow(matches[pos])}
    /\ pos' = pos + 1
    /\ UNCHANGED <<files, tables_exist, movies, committed, pc, matches, warnings,
                   error, result, first_load>>

insert_actors_IntegrityError ==
    /\ pc = "insert_actors"
    /\ pos <= Len(matches)
    /\ ActorConstraintFails(ActorRow(matches[pos]))
    /\ warnings' = Append(warnings, [table |-> "actors", id |-> ParseInt(matches[pos].id)])
    /\ pos' = pos + 1
    /\ UNCHANGED <<files, tables_exist, movies, actors, committed, pc, matches,
                   error, result, first_load>>

\* The loop is exhausted: the with block commits and __init__ returns.
insert_actors_commit ==
    /\ pc = "insert_actors"
    /\ pos > Len(matches)
    /\ committed' = [movies |-> movies, actors |-> actors]
    /\ matches' = <<>>
    /\ pos' = 1
    /\ pc' = "ready"
    /\ UNCHANGED <<files, tables_exist, movies, actors, warnings, error, result,
                   first_load>>

\* MovieDatabaseUtility(sql_dir, db_file) is constructed again over the same
\* directory and storage file.
construct_again ==
    /\ pc \in {"ready", "failed"}
    /\ first_load' = IF pc = "ready"
                     THEN [known |-> TRUE, movies |-> movies, actors |-> actors]
                     ELSE first_load
    /\ pc' = "initialize_database"
    /\ matches' = <<>>
    /\ pos' = 1
    /\ warnings' = <<>>
    /\ error' = "none"
    /\ result' = NoResult
    /\ UNCHANGED <<files, tables_exist, movies, actors, committed>>

(***************************************************************************)
(* Query layer.  Rows that ORDER BY leaves tied come in any order.         *)
(* A query only reads the tables and sets result, so what it returns does  *)
(* not depend on the queries asked before it: result holds the answer to   *)
(* one query per construction, which reaches the same states as any chain  *)
(* of queries does.                                                        *)
(***************************************************************************)
\* The names and ratings of the model in SQLite's BINARY collation order.
BinaryOrder == <<"A", "B", "C", "G", "Old", "Older", "PG", "R", "a">>

BinaryRank(s) == CHOOSE i \in 1..Len(BinaryOrder) : BinaryOrder[i] = s

\* LIKE folds the case of ASCII letters.
Lower(c) == IF c = "N" THEN "n" ELSE IF c = "O" THEN "o" ELSE c

\* text LIKE '%' || pat || '%', pat holding no wildcard
Like(text, pat) ==
    \E i \in 1..(Len(text) + 1) :
        /\ i + Len(pat) - 1 <= Len(text)
        /\ \A j \in 1..Len(pat) : Lower(text[i + j - 1]) = Lower(pat[j])

\* COUNT(a.id) of movies m LEFT JOIN actors a ON m.id = a.movie_id GROUP BY m.id
ActorCount(m) == Cardinality({a \in actors : a.movie_id = m.id})

Joined(M) ==
    { [id |-> m.id, imdb_id |-> m.imdb_id, title |-> m.title, director |-> m.director,
       year |-> m.year, rating |-> m.rating, runtime |-> m.runtime,
       imdb_score |-> m.imdb_score, actor_count |-> ActorCount(m)] : m \in M }

\* The sequences ORDER BY may produce from the rows S: key maps each row to
\* its sort key, ascending.
Orderings(S, key) ==
    { s \in [1..Cardinality(S) -> S] :
        /\ \A i, j \in 1..Cardinality(S) : i # j => s[i] # s[j]
        /\ \A i, j \in 1..Cardinality(S) : i < j => key[s[i]] <= key[s[j]] }

\* Mutant: the LIMIT clause is missing.
LimitMissing(s, n) == s

\* LIMIT n: a negative n is no limit.
Limit(s, n) == IF n < 0 \/ n >= Len(s) THEN s ELSE SubSeq(s, 1, n)

\* Mutant: ORDER BY m.runtime without DESC.
ByRuntimeAsc(S) == [x \in S |-> x.runtime]

ByRuntimeDesc(S) == [x \in S |-> -x.runtime]

\* Mutant: ORDER BY actor_count without DESC.
ByActorCountAsc(S) == [x \in S |-> x.actor_count]

ByActorCountDesc(S) == [x \in S |-> -x.actor_count]

ByScoreDesc(S) == [x \in S |-> -x.imdb_score]

ByName(S) == [x \in S |-> BinaryRank(x.name)]

ActorItem(a) == [id |-> a.id, imdb_id |-> a.imdb_id, name |-> a.name]

Summary(m) ==
    [title |-> m.title, imdb_score |-> m.imdb_score, year |-> m.year,
     director |-> m.director, actors_count |-> m.actor_count]

\* round(AVG(x), 2) if AVG(x) else 0, in hundredths; scale is 100 for a
\* column held in units and 1 for one held in hundredths.
RECURSIVE Sum(_, _)
Sum(S, column) ==
    IF S = {} THEN 0
    ELSE LET x == CHOOSE y \in S : TRUE IN x[column] + Sum(S \ {x}, column)

Average(S, column, scale) ==
    IF S = {} THEN 0
    ELSE (2 * scale * Sum(S, column) + Cardinality(S)) \div (2 * Cardinality(S))

Min(S) == CHOOSE x \in S : \A y \in S : x <= y

Max(S) == CHOOSE x \in S : \A y \in S : x >= y

\* The arguments the queries are asked with.
TopNArgs == {-1, 0, 1, DefaultTopN}

DirectorArgs == {<<"n", "O">>, <<"o", "x">>}

RatingArgs == {"PG", "G"}

EmptyDict(op) == [op |-> op, empty |-> TRUE]

\* Mutant: the GROUP BY m.id is missing, so the aggregate yields one row of
\* NULLs on an empty table and "if not result" lets it through.
get_longest_running_movie_ungrouped ==
    /\ pc = "ready"
    /\ result = NoResult
    /\ \E rows \in Orderings(Joined(movies), ByRuntimeDesc(Joined(movies))) :
          result' = IF rows = <<>>
                    THEN [op |-> "get_longest_running_movie", empty |-> FALSE,
                          title |-> "None", actor_count |-> 0]
                    ELSE LET r == rows[1] IN
                         [op |-> "get_longest_running_movie", empty |-> FALSE,
                          title |-> r.title, runtime |-> r.runtime, year |-> r.year,
                          director |-> r.director, imdb_score |-> r.imdb_score,
                          actor_count |-> r.actor_count, full_details |-> r]
    /\ UNCHANGED <<files, tables_exist, movies, actors, committed, pc, matches, pos,
                   warnings, error, first_load>>

get_longest_running_movie ==
    /\ pc = "ready"
    /\ result = NoResult
    /\ \E rows \in Orderings(Joined(movies), ByRuntimeDesc(Joined(movies))) :
          result' = IF Limit(rows, 1) = <<>> THEN EmptyDict("get_longest_running_movie")
                    ELSE LET r == rows[1] IN
                         [op |-> "get_longest_running_movie", empty |-> FALSE,
                          title |-> r.title, runtime |-> r.runtime, year |-> r.year,
                          director |-> r.director, imdb_score |-> r.imdb_score,
                          actor_count |-> r.actor_count, full_details |-> r]
    /\ UNCHANGED <<files, tables_exist, movies, actors, committed, pc, matches, pos,
                   warnings, error, first_load>>

get_movie_with_most_actors ==
    /\ pc = "ready"
    /\ result = NoResult
    /\ \E rows \in Orderings(Joined(movies), ByActorCountDesc(Joined(movies))) :
          IF Limit(rows, 1) = <<>>
          THEN result' = EmptyDict("get_movie_with_most_actors")
          ELSE LET r == rows[1] IN
               \E list \in Orderings({a \in actors : a.movie_id = r.id},
                                      ByName({a \in actors : a.movie_id = r.id})) :
                  result' = [op |-> "get_movie_with_most_actors", empty |-> FALSE,
                             title |-> r.title, actor_count |-> r.actor_count,
                             year |-> r.year, director |-> r.director,
                             imdb_score |-> r.imdb_score,
                             actors |-> [i \in 1..Len(list) |-> ActorItem(list[i])],
                             full_details |-> r]
    /\ UNCHANGED <<files, tables_exist, movies, actors, committed, pc, matches, pos,
                   warnings, error, first_load>>

RatingsOf(s) == {s[i].rating : i \in 1..Len(s)}

WithRating(s, r) == SelectSeq(s, LAMBDA m : m.rating = r)

get_top_movies_by_rating_breakdown ==
    /\ pc = "ready"
    /\ result = NoResult
    /\ \E top_n \in TopNArgs :
       \E rows \in Orderings(Joined(movies), ByScoreDesc(Joined(movies))) :
          LET top_movies == Limit(rows, top_n) IN
          result' = IF top_movies = <<>>
                    THEN [op |-> "get_top_movies_by_rating_breakdown", empty |-> TRUE,
                          top_n |-> top_n]
                    ELSE [op |-> "get_top_movies_by_rating_breakdown", empty |-> FALSE,
                          top_n |-> top_n,
                          total_movies_in_top |-> Len(top_movies),
                          rating_categories |->
                              [r \in RatingsOf(top_movies) |->
                                  [i \in 1..Len(WithRating(top_movies, r)) |->
                                      Summary(WithRating(top_movies, r)[i])]],
                          rating_distribution |->
                              [r \in RatingsOf(top_movies) |->
                                  Len(WithRating(top_movies, r))]]
    /\ UNCHANGED <<files, tables_exist, movies, actors, committed, pc, matches, pos,
                   warnings, error, first_load>>

\* Mutant: total_actors is read from the movies table as well.
get_all_stats_movies_twice ==
    /\ pc = "ready"
    /\ result = NoResult
    /\ result' = [op |-> "get_all_stats",
                  total_movies |-> Cardinality(movies),
                  total_actors |-> Cardinality(movies),
                  average_runtime |-> Average(movies, "runtime", 100),
                  average_imdb_score |-> Average(movies, "imdb_score", 1),
                  rating_distribution |->
                      [r \in {m.rating : m \in movies} |->
                          Cardinality({m \in movies : m.rating = r})],
                  year_range |->
                      IF movies = {} THEN [min |-> "None", max |-> "None"]
                      ELSE [min |-> Min({m.year : m \in movies}),
                            max |-> Max({m.year : m \in movies})]]
    /\ UNCHANGED <<files, tables_exist, movies, actors, committed, pc, matches, pos,
                   warnings, error, first_load>>

get_all_stats ==
    /\ pc = "ready"
    /\ result = NoResult
    /\ result' = [op |-> "get_all_stats",
                  total_movies |-> Cardinality(movies),
                  total_actors |-> Cardinality(actors),
                  average_runtime |-> Average(movies, "runtime", 100),
                  average_imdb_score |-> Average(movies, "imdb_score", 1),
                  rating_distribution |->
                      [r \in {m.rating : m \in movies} |->
                          Cardinality({m \in movies : m.rating = r})],
                  year_range |->
                      IF movies = {} THEN [min |-> "None", max |-> "None"]
                      ELSE [min |-> Min({m.year : m \in movies}),
                            max |-> Max({m.year : m \in movies})]]
    /\ UNCHANGED <<files, tables_exist, movies, actors, committed, pc, matches, pos,
                   warnings, error, first_load>>

query_movies_by_director ==
    /\ pc = "ready"
    /\ result = NoResult
    /\ \E director \in DirectorArgs :
       LET found == Joined({m \in movies : Like(m.director, director)}) IN
       \E rows \in Orderings(found, ByScoreDesc(found)) :
          result' = [op |-> "query_movies_by_director", director |-> director,
                     rows |-> rows]
    /\ UNCHANGED <<files, tables_exist, movies, actors, committed, pc, matches, pos,
                   warnings, error, first_load>>

query_movies_by_rating ==
    /\ pc = "ready"
    /\ result = NoResult
    /\ \E rating \in RatingArgs :
       LET found == Joined({m \in movies : m.rating = rating}) IN
       \E rows \in Orderings(found, ByScoreDesc(found)) :
          result' = [op |-> "query_movies_by_rating", rating |-> rating, rows |-> rows]
    /\ UNCHANGED <<files, tables_exist, movies, actors, committed, pc, matches, pos,
                   warnings, error, first_load>>

Next ==
    \/ initialize_database
    \/ parse_and_insert_FileNotFoundError
    \/ insert_movies_open
    \/ insert_movies_row
    \/ insert_movies_IntegrityError
    \/ insert_movies_ValueError
    \/ insert_movies_commit
    \/ insert_actors_row
    \/ insert_actors_IntegrityError
    \/ insert_actors_commit
    \/ construct_again
    \/ get_longest_running_movie
    \/ get_movie_with_most_actors
    \/ get_top_movies_by_rating_breakdown
    \/ get_all_stats
    \/ query_movies_by_director
    \/ query_movies_by_rating

Spec == Init /\ [][Next]_vars

(***************************************************************************)
(* Properties.                                                             *)
(***************************************************************************)
MovieSrc == MovieMatches(movies_file.content)

ActorSrc == ActorMatches(actors_file.content)

\* the identifiers of the statements of src, in source order
IdsOf(src) == [i \in 1..Len(src) |-> ParseInt(src[i].id)]

\* entry i of ids is the first with its value
First(ids, i) == \A j \in 1..(i - 1) : ids[j] # ids[i]

Repeats(ids) == {i \in DOMAIN ids : ~First(ids, i)}

WarningsFor(table) == SelectSeq(warnings, LAMBDA w : w.table = table)

MovieRows(src) == [i \in 1..Len(src) |-> MovieRow(src[i])]

ActorRows(src) == [i \in 1..Len(src) |-> ActorRow(src[i])]

\* Of the statements src, whose rows are rows, the first of each identifier
\* is stored in table with its own fields and is the only row of that
\* identifier; every later one of that identifier left a warning.
FirstPersists(src, rows, table, name) ==
    LET ids == IdsOf(src)
        warned == WarningsFor(name)
    IN  /\ \A i \in DOMAIN ids :
              /\ First(ids, i) => rows[i] \in table
              /\ Cardinality({r \in table : r.id = ids[i]}) = 1
              /\ ~First(ids, i) =>
                    \E w \in DOMAIN warned : warned[w] = [table |-> name, id |-> ids[i]]
        /\ Len(warned) = Cardinality(Repeats(ids))

\* C1: once loading has completed, every row of actors has a movie_id that
\* is the id of some row of movies.
C1_ActorsReferenceLoadedMovies ==
    pc = "ready" => \A a \in actors : \E m \in movies : m.id = a.movie_id

DistinctAndReferencing ==
    LET mids == IdsOf(MovieSrc)
        asrc == ActorSrc
    IN  /\ Repeats(mids) = {}
        /\ Repeats(IdsOf(asrc)) = {}
        /\ \A i \in 1..Len(asrc) :
              \E j \in DOMAIN mids : mids[j] = ParseInt(asrc[i].movie_id)

\* C3: when the well-formed movie statements have pairwise distinct
\* identifiers and the well-formed actor statements have pairwise distinct
\* identifiers and all reference loaded movies, get_all_stats reports as
\* total_movies and total_actors the numbers of those statements.
C3_CountsEqualStatementCounts ==
    (result.op = "get_all_stats" /\ DistinctAndReferencing) =>
        /\ result.total_movies = Len(MovieSrc)
        /\ result.total_actors = Len(ActorSrc)

C3_Witness ==
    /\ result.op = "get_all_stats"
    /\ DistinctAndReferencing
    /\ Len(MovieSrc) = 2
    /\ Len(ActorSrc) = 2
    /\ result.total_movies = 2
    /\ result.total_actors = 2

\* C4: when a source is absent the construction never reaches an insert
\* loop; it ends in FileNotFoundError, and from the moment the absence is
\* looked for both tables exist and are empty.
C4_AbsentSourceAbortsBeforeInsert ==
    (~movies_file.exists \/ ~actors_file.exists) =>
        /\ pc \in {"initialize_database", "parse_and_insert_sql_files", "failed"}
        /\ pc = "failed" =>
              error \in {"FileNotFoundError: actors.sql", "FileNotFoundError: movies.sql"}
        /\ pc \in {"parse_and_insert_sql_files", "failed"} =>
              /\ tables_exist
              /\ movies = {} /\ actors = {}
              /\ committed = [movies |-> {}, actors |-> {}]

\* Only actors.sql is absent, and movies.sql holds a statement that would
\* have been inserted.
C4_Witness ==
    /\ pc = "failed"
    /\ ~actors_file.exists
    /\ movies_file.exists
    /\ Len(MovieSrc) >= 1 /\ MovieArgsOk(MovieSrc[1])
    /\ tables_exist /\ movies = {} /\ actors = {}

\* every statement of src has a row of its identifier in table
AllProcessed(src, table) ==
    LET ids == IdsOf(src) IN \A i \in DOMAIN ids : \E r \in table : r.id = ids[i]


\* C5: a step that adds a movie row is taken after the tables were created
\* and while no actor row exists; a step that adds an actor row is taken
\* after every movie statement was processed; a step that returns a query
\* result is taken after both loads were committed.
C5_CreateThenMoviesThenActors ==
    [][ /\ (movies' \ movies # {}) =>
              (pc = "insert_movies" /\ tables_exist /\ actors = {})
        /\ (actors' \ actors # {}) =>
              (pc = "insert_actors" /\ tables_exist /\ committed.movies = movies
                 /\ AllProcessed(MovieSrc, movies))
        /\ (result' # result /\ result' # NoResult) =>
              (pc = "ready" /\ committed = [movies |-> movies, actors |-> actors]
                 /\ AllProcessed(MovieSrc, movies)
                 /\ AllProcessed(ActorSrc, actors)) ]_vars

C5_Witness ==
    /\ pc = "ready"
    /\ Cardinality(movies) = 2
    /\ Cardinality(actors) = 2
    /\ result.op = "get_movie_with_most_actors"

\* C6: when a construction has completed, every row of the tables is the row
\* of a statement of the current sources, no accepted statement is missing,
\* and the tables equal the ones an earlier construction over the same
\* sources left.
C6_ReinitializeIsDestructive ==
    pc = "ready" =>
        /\ \A r \in movies : \E i \in 1..Len(MovieSrc) : r = MovieRow(MovieSrc[i])
        /\ \A r \in actors : \E i \in 1..Len(ActorSrc) : r = ActorRow(ActorSrc[i])
        /\ AllProcessed(MovieSrc, movies)
        /\ AllProcessed(ActorSrc, actors)
        /\ committed = [movies |-> movies, actors |-> actors]
        /\ first_load.known =>
              (first_load.movies = movies /\ first_load.actors = actors)

\* A second construction over a storage file that held movie and actor rows.
C6_Witness ==
    /\ pc = "ready"
    /\ first_load.known
    /\ first_load.movies # {} /\ first_load.actors # {}
    /\ movies # {} /\ actors # {}

SeqToSet(s) == {s[i] : i \in 1..Len(s)}

\* C7: on a non-empty movies table get_movie_with_most_actors returns a
\* movie no other movie has more actor rows than; actor_count is the length
\* of the actors list; the list holds exactly the actor rows of that movie,
\* each once; the list is in ascending order of name.
C7_MostActors ==
    (result.op = "get_movie_with_most_actors" /\ movies # {}) =>
        /\ ~result.empty
        /\ \E m \in movies :
              /\ m.id = result.full_details.id
              /\ m.title = result.title
              /\ \A other \in movies : ActorCount(other) <= ActorCount(m)
              /\ result.actor_count = ActorCount(m)
              /\ SeqToSet(result.actors) = {ActorItem(a) : a \in {x \in actors : x.movie_id = m.id}}
        /\ result.actor_count = Len(result.actors)
        /\ Cardinality(SeqToSet(result.actors)) = Len(result.actors)
        /\ \A i, j \in 1..Len(result.actors) :
              i < j => BinaryRank(result.actors[i].name) <= BinaryRank(result.actors[j].name)

\* A movie with two actors, stored in the other order, beside one with none.
C7_Witness ==
    /\ result.op = "get_movie_with_most_actors"
    /\ ~result.empty
    /\ \E m \in movies : ActorCount(m) = 0
    /\ Len(result.actors) = 2
    /\ result.actors[1].id > result.actors[2].id
    /\ result.actors[1].name # result.actors[2].name

Smaller(a, b) == IF a <= b THEN a ELSE b

\* C8: for top_n >= 1 on a non-empty movies table the breakdown is that of
\* min(top_n, movie count) movies none of which has a lower score than a
\* movie left out; total_movies_in_top is their number, both mappings have
\* the ratings of those movies as keys, rating_distribution[r] is the length
\* of rating_categories[r], and the counts add up to total_movies_in_top.
C8_TopMoviesBreakdown ==
    (result.op = "get_top_movies_by_rating_breakdown" /\ result.top_n >= 1 /\ movies # {}) =>
        /\ ~result.empty
        /\ result.total_movies_in_top = Smaller(result.top_n, Cardinality(movies))
        /\ DOMAIN result.rating_distribution = DOMAIN result.rating_categories
        /\ \A r \in DOMAIN result.rating_distribution :
              result.rating_distribution[r] = Len(result.rating_categories[r])
        /\ \E selected \in SUBSET movies :
              /\ Cardinality(selected) = result.total_movies_in_top
              /\ \A s \in selected : \A u \in movies \ selected : u.imdb_score <= s.imdb_score
              /\ DOMAIN result.rating_categories = {s.rating : s \in selected}
              /\ \A r \in DOMAIN result.rating_categories :
                    /\ SeqToSet(result.rating_categories[r]) =
                          {Summary(j) : j \in Joined({s \in selected : s.rating = r})}
                    /\ Len(result.rating_categories[r]) =
                          Cardinality({s \in selected : s.rating = r})
        /\ Sum({[rating |-> r, count |-> result.rating_distribution[r]] :
                   r \in DOMAIN result.rating_distribution}, "count")
              = result.total_movies_in_top

\* One movie is selected out of two with different scores.
C8_Witness ==
    /\ result.op = "get_top_movies_by_rating_breakdown"
    /\ result.top_n = 1
    /\ \E m, n \in movies : m.imdb_score < n.imdb_score
    /\ ~result.empty
    /\ result.total_movies_in_top = 1

\* C9: on empty tables get_all_stats returns zero counts, zero averages and
\* an empty rating distribution, the three single-movie queries return an
\* empty result and the two lookups an empty list; every query returns.
C9_EmptyTables ==
    (pc = "ready" /\ movies = {} /\ actors = {}) =>
        /\ result.op = "get_all_stats" =>
              /\ result.total_movies = 0
              /\ result.total_actors = 0
              /\ result.average_runtime = 0
              /\ result.average_imdb_score = 0
              /\ DOMAIN result.rating_distribution = {}
        /\ result.op \in {"get_longest_running_movie", "get_movie_with_most_actors",
                          "get_top_movies_by_rating_breakdown"} => result.empty
        /\ result.op \in {"query_movies_by_director", "query_movies_by_rating"} =>
              result.rows = <<>>
        /\ result = NoResult =>
              /\ ENABLED get_all_stats
              /\ ENABLED get_longest_running_movie
              /\ ENABLED get_movie_with_most_actors
              /\ ENABLED get_top_movies_by_rating_breakdown
              /\ ENABLED query_movies_by_director
              /\ ENABLED query_movies_by_rating

C9_Witness ==
    /\ pc = "ready"
    /\ movies = {} /\ actors = {}
    /\ result.op = "get_longest_running_movie"
    /\ result.empty

Unjoined(row) ==
    [id |-> row.id, imdb_id |-> row.imdb_id, title |-> row.title,
     director |-> row.director, year |-> row.year, rating |-> row.rating,
     runtime |-> row.runtime, imdb_score |-> row.imdb_score]

\* C10: on a non-empty movies table get_longest_running_movie returns one
\* movie whose runtime no loaded movie exceeds, with the number of actor rows
\* that reference it; query_movies_by_rating(r) returns the loaded movies of
\* rating r and no other, each once, in non-increasing order of score.
C10_LongestAndByRating ==
    /\ (result.op = "get_longest_running_movie" /\ movies # {}) =>
          /\ ~result.empty
          /\ \E m \in movies :
                /\ Unjoined(result.full_details) = m
                /\ result.runtime = m.runtime
                /\ result.title = m.title
                /\ \A other \in movies : other.runtime <= m.runtime
                /\ result.actor_count = Cardinality({a \in actors : a.movie_id = m.id})
    /\ result.op = "query_movies_by_rating" =>
          /\ {Unjoined(x) : x \in SeqToSet(result.rows)} =
                {m \in movies : m.rating = result.rating}
          /\ Len(result.rows) = Cardinality({m \in movies : m.rating = result.rating})
          /\ \A i, j \in 1..Len(result.rows) :
                i < j => result.rows[i].imdb_score >= result.rows[j].imdb_score

\* Two movies of the asked rating with different scores.
C10_Witness ==
    /\ result.op = "query_movies_by_rating"
    /\ Len(result.rows) = 2
    /\ result.rows[1].imdb_score > result.rows[2].imdb_score


====
